---- MODULE Spec2Model ----
(***************************************************************************)
(* StringLookup (keras_core/layers/preprocessing/string_lookup.py): the    *)
(* wrapper layer and the vocabulary encoder it forwards to.  Every public  *)
(* method of the wrapper forwards to self.layer; the behaviour of the      *)
(* wrapped layer is taken from the class and method docstrings of the      *)
(* wrapper, and from the design specification where the docstrings are     *)
(* silent.                                                                 *)
(*                                                                         *)
(* Numbers that are floats in the program (idf weights, tf_idf outputs)    *)
(* are fixed-point integers in thousandths: 0.25 is 250.                   *)
(***************************************************************************)
EXTENDS Integers, Sequences, FiniteSets, TLC

\* ------------------------------------------------------------------ bounds
MaxOov == 1          \* num_oov_indices ranges over 0..MaxOov (lookups: one more)
MaxCap == 3          \* max_tokens ranges over None and 2..MaxCap
MaxSampleLen == 2    \* tokens per enumerated sample
MaxBatch == 1        \* samples per enumerated update_state batch
MaxOccur == 2        \* token occurrences accumulated by update_state calls
MaxVocabLen == 1     \* length of the enumerated set_vocabulary lists
MaxHash == 2         \* the opaque hash takes values in 0..MaxHash

\* ------------------------------------------------------------------ tokens
None == "None"
OovToken == "[UNK]"
MaskTok == "[MASK]"
UpdTokens == {"a", "b"}
DataTokens == {"a", "b", "c", "d", "z"}
Modes == {"int", "one_hot", "multi_hot", "count", "tf_idf"}

\* Byte order of the tokens (each token is ordered by its first byte; the
\* tokens of the model differ in their first byte).
TokenOrd(t) ==
    CASE t = "[MASK]" -> 90
      [] t = "[UNK]" -> 91
      [] t = "a" -> 97
      [] t = "b" -> 98
      [] t = "c" -> 99
      [] t = "d" -> 100
      [] t = "m" -> 109
      [] t = "z" -> 122

VARIABLES
    num_oov_indices, mask_token, max_tokens, output_mode, pad_to_max_tokens,
    fingerprint, layer_methods,
    token_counts, token_document_counts, num_documents,
    vocab, idf_weights, has_vocab,
    last, out, inv_out, err, base, memo

config == <<num_oov_indices, mask_token, max_tokens, output_mode,
            pad_to_max_tokens, fingerprint, layer_methods>>
table == <<token_counts, token_document_counts, num_documents>>
vars == <<config, table, vocab, idf_weights, has_vocab, last, out, inv_out, err, base, memo>>

\* ------------------------------------------------------------------ helpers
Range(s) == {s[i] : i \in DOMAIN s}
NoDup(s) == \A i, j \in DOMAIN s : s[i] = s[j] => i = j
IndexOf(s, x) == CHOOSE i \in DOMAIN s : s[i] = x
Occ(s, x) == Cardinality({i \in DOMAIN s : s[i] = x})

RECURSIVE SumSeq(_)
SumSeq(s) == IF s = <<>> THEN 0 ELSE Head(s) + SumSeq(Tail(s))

RECURSIVE SumOver(_, _)
SumOver(f, S) ==
    IF S = {} THEN 0
    ELSE LET x == CHOOSE y \in S : TRUE IN f[x] + SumOver(f, S \ {x})

RECURSIVE Flatten(_)
Flatten(batch) == IF batch = <<>> THEN <<>> ELSE Head(batch) \o Flatten(Tail(batch))

SeqsUpTo(S, n) == UNION {[1..k -> S] : k \in 1..n}

ZeroCounts == [t \in DataTokens |-> 0]
NoMemo == [token |-> None, index |-> 0 - 1, again |-> FALSE, between |-> FALSE]
NoCall == [op |-> "init", data |-> <<>>, tokens |-> <<>>, idf |-> <<>>,
           has_idf |-> FALSE, fresh |-> FALSE, twice |-> FALSE, invoked |-> None]

\* The persistence methods of the wrapper, and the names the wrapped layer may
\* provide them under.
PublicMethods == {"save_own_variables", "load_own_variables", "save_assets", "load_assets"}
Private(method) ==
    CASE method = "save_own_variables" -> "_save_own_variables"
      [] method = "load_own_variables" -> "_load_own_variables"
      [] method = "save_assets" -> "_save_assets"
      [] method = "load_assets" -> "_load_assets"
PrivateMethods == {Private(method) : method \in PublicMethods}

\* ------------------------------------------------------------------ layout
\* The mask slot exists only in "int" mode; OOV slots follow it; tokens follow.
oov_start_index == IF mask_token # None /\ output_mode = "int" THEN 1 ELSE 0
\* tokens placed right after the OOV slots, the mask slot forgotten
token_start_NoMask == num_oov_indices

token_start_index == oov_start_index + num_oov_indices
vocabulary_size == token_start_index + Len(vocab)

\* get_vocabulary(include_special_tokens)
get_vocabulary(include_special_tokens) ==
    IF include_special_tokens
    THEN [i \in 1..oov_start_index |-> mask_token]
         \o [i \in 1..num_oov_indices |-> OovToken] \o vocab
    ELSE vocab

\* ------------------------------------------------------------------ adapt
Samples == SeqsUpTo(UpdTokens, MaxSampleLen)
UpdBatches == SeqsUpTo(Samples, MaxBatch)
DocBatch == << <<"a", "c", "d">>, <<"d", "z", "b">> >>
TieBatch == << <<"a", "b">>, <<"b", "a">>, <<"a", "b", "c">> >>
AdaptBatches == {<<s>> : s \in Samples} \cup {DocBatch, TieBatch}

\* counts of the batch alone, what was counted before forgotten
ReplaceCounts(counts, batch) == [t \in DataTokens |-> Occ(Flatten(batch), t)]

\* update_state: occurrence counts of a batch added to the table
AddCounts(counts, batch) ==
    [t \in DataTokens |-> counts[t] + Occ(Flatten(batch), t)]

\* every occurrence counted as a document
AddDocOccurrences(dcounts, batch) ==
    [t \in DataTokens |-> dcounts[t] + Occ(Flatten(batch), t)]

\* update_state in tf_idf mode: each sample is a document and counts a token once
AddDocCounts(dcounts, batch) ==
    [t \in DataTokens |->
        dcounts[t] + Cardinality({i \in DOMAIN batch : t \in Range(batch[i])})]

TableAfterUpdate(counts, dcounts, ndocs, batch) ==
    [counts |-> AddCounts(counts, batch),
     dcounts |-> IF output_mode = "tf_idf" THEN AddDocCounts(dcounts, batch) ELSE dcounts,
     ndocs |-> IF output_mode = "tf_idf" THEN ndocs + Len(batch) ELSE ndocs]

\* ties broken low to high
BeforeAscending(counts, t, u) ==
    \/ counts[t] > counts[u]
    \/ counts[t] = counts[u] /\ TokenOrd(t) < TokenOrd(u)

\* Sort by occurrence count, ties by the sort order of the tokens, high to low.
Before(counts, t, u) ==
    \/ counts[t] > counts[u]
    \/ counts[t] = counts[u] /\ TokenOrd(t) > TokenOrd(u)

RECURSIVE SortTokens(_, _)
SortTokens(counts, S) ==
    IF S = {} THEN <<>>
    ELSE LET first == CHOOSE t \in S : \A u \in S \ {t} : Before(counts, t, u)
         IN <<first>> \o SortTokens(counts, S \ {first})

Seen(counts) == {t \in DataTokens : counts[t] > 0}

\* max_tokens taken as the number of tokens, reserved slots not included
TruncateTokens(tokens) ==
    IF max_tokens # 0 /\ Len(tokens) > max_tokens
    THEN SubSeq(tokens, 1, max_tokens)
    ELSE tokens

\* The vocabulary is truncated to max_tokens, a size that includes the OOV and
\* mask slots.
Truncate(tokens) ==
    IF max_tokens # 0 /\ Len(tokens) > max_tokens - token_start_index
    THEN SubSeq(tokens, 1, max_tokens - token_start_index)
    ELSE tokens

LearnedVocab(counts) == Truncate(SortTokens(counts, Seen(counts)))

\* round(1000 * ln(1 + num_documents / (1 + token_document_count))):
\* row num_documents + 1, column token_document_count + 1
LnTable == <<
   <<0, 0, 0, 0, 0, 0, 0, 0, 0, 0>>,
   <<693, 405, 288, 223, 182, 154, 134, 118, 105, 95>>,
   <<1099, 693, 511, 405, 336, 288, 251, 223, 201, 182>>,
   <<1386, 916, 693, 560, 470, 405, 357, 318, 288, 262>>,
   <<1609, 1099, 847, 693, 588, 511, 452, 405, 368, 336>>,
   <<1792, 1253, 981, 811, 693, 606, 539, 486, 442, 405>>,
   <<1946, 1386, 1099, 916, 788, 693, 619, 560, 511, 470>>,
   <<2079, 1504, 1204, 1012, 875, 773, 693, 629, 575, 531>>,
   <<2197, 1609, 1299, 1099, 956, 847, 762, 693, 636, 588>>,
   <<2303, 1705, 1386, 1179, 1030, 916, 827, 754, 693, 642>> >>

inverse_document_frequency(token_document_count, ndocs) ==
    LnTable[ndocs + 1][token_document_count + 1]

Mean(ws) == IF ws = <<>> THEN 0 ELSE SumSeq(ws) \div Len(ws)

\* Weights of the reserved slots in front: the average of the weights given.
PadFront(ws, n) == [i \in 1..n |-> Mean(ws)] \o ws

LearnedIdf(tokens, dcounts, ndocs) ==
    PadFront([i \in DOMAIN tokens |-> inverse_document_frequency(dcounts[tokens[i]], ndocs)],
             token_start_index)


\* ------------------------------------------------------------------ lookup
InVocab(t) == t \in Range(vocab)
IsMask(t) == mask_token # None /\ t = mask_token
Missing(t) == ~IsMask(t) /\ ~InVocab(t)

\* The hash of the wrapped layer: a fixed function of the token, opaque here.
stable_hash(t) == fingerprint[t]

\* OOV slots taken to start at index 0 whatever the mask
OovIndexFromZero(t) == stable_hash(t) % num_oov_indices

\* OOV inputs are modulated into the OOV slots.
OovIndex(t) ==
    IF num_oov_indices = 1 THEN oov_start_index
    ELSE oov_start_index + (stable_hash(t) % num_oov_indices)

\* With num_oov_indices = 0 an OOV input is an error.
LookupFails(t) == Missing(t) /\ num_oov_indices = 0

\* Index of a token; a mask token is index 0 in "int" mode and dropped (-1) otherwise.
lookup(t) ==
    IF IsMask(t) THEN (IF output_mode = "int" THEN 0 ELSE -1)
    ELSE IF InVocab(t) THEN token_start_index + IndexOf(vocab, t) - 1
    ELSE IF num_oov_indices = 0 THEN -1
    ELSE OovIndex(t)

\* inverse that does not know the OOV slots: index i is the i-th token
inverse_lookup_NoOov(i) ==
    IF oov_start_index = 1 /\ i = 0 THEN mask_token
    ELSE IF (i - oov_start_index + 1) \in DOMAIN vocab
         THEN vocab[i - oov_start_index + 1]
         ELSE OovToken

\* invert=True layer over the same vocabulary: index to token, OOV indices to oov_token.
inverse_lookup(i) ==
    IF oov_start_index = 1 /\ i = 0 THEN mask_token
    ELSE IF (i - token_start_index + 1) \in DOMAIN vocab
         THEN vocab[i - token_start_index + 1]
         ELSE OovToken

\* ------------------------------------------------------------------ call
depth == IF pad_to_max_tokens THEN max_tokens ELSE vocabulary_size

\* occurrences of the vocabulary's tokens only, unknown tokens not counted
BincountKnown(sample) ==
    [i \in 1..depth |->
        Cardinality({k \in DOMAIN sample :
                        InVocab(sample[k]) /\ lookup(sample[k]) = i - 1})]

Bincount(sample) ==
    [i \in 1..depth |-> Cardinality({k \in DOMAIN sample : lookup(sample[k]) = i - 1})]

IdfWeight(i) == IF i \in DOMAIN idf_weights THEN idf_weights[i] ELSE 0

EncodeInt(sample) == [k \in DOMAIN sample |-> lookup(sample[k])]
EncodeOneHot(sample) == [i \in 1..depth |-> IF lookup(sample[1]) = i - 1 THEN 1 ELSE 0]
EncodeMultiHot(sample) == [i \in 1..depth |-> IF Bincount(sample)[i] >= 1 THEN 1 ELSE 0]
EncodeCount(sample) == Bincount(sample)
\* the weight of each token present, its count ignored
EncodeIdfPresent(sample) ==
    [i \in 1..depth |-> IF Bincount(sample)[i] >= 1 THEN IdfWeight(i) ELSE 0]
EncodeTfIdf(sample) == [i \in 1..depth |-> Bincount(sample)[i] * IdfWeight(i)]

Encode(sample) ==
    CASE output_mode = "int" -> EncodeInt(sample)
      [] output_mode = "one_hot" -> EncodeOneHot(sample)
      [] output_mode = "multi_hot" -> EncodeMultiHot(sample)
      [] output_mode = "count" -> EncodeCount(sample)
      [] output_mode = "tf_idf" -> EncodeTfIdf(sample)

\* a call that never asks whether a vocabulary exists
CallErrorNoState(batch) ==
    IF \E t \in Range(Flatten(batch)) : LookupFails(t) THEN "LookupError"
    ELSE IF output_mode = "one_hot" /\ \E i \in DOMAIN batch : Len(batch[i]) # 1
         THEN "ValueError"
    ELSE "none"

\* Why a call fails, "none" when it does not.
CallError(batch) ==
    IF ~has_vocab THEN "StateError"
    ELSE IF \E t \in Range(Flatten(batch)) : LookupFails(t) THEN "LookupError"
    ELSE IF output_mode = "one_hot" /\ \E i \in DOMAIN batch : Len(batch[i]) # 1
         THEN "ValueError"
    ELSE "none"

CallOutput(batch) == [i \in DOMAIN batch |-> Encode(batch[i])]

\* ------------------------------------------------------------------ set_vocabulary
SpecialTokens ==
    [i \in 1..oov_start_index |-> mask_token] \o [i \in 1..num_oov_indices |-> OovToken]

FoundSpecialTokens(vocabulary) ==
    /\ Len(vocabulary) >= token_start_index
    /\ SubSeq(vocabulary, 1, token_start_index) = SpecialTokens

UserTokens(vocabulary) ==
    IF FoundSpecialTokens(vocabulary)
    THEN SubSeq(vocabulary, token_start_index + 1, Len(vocabulary))
    ELSE vocabulary

\* only the missing weights are an error
IdfMissing(has_idf) == output_mode = "tf_idf" /\ ~has_idf

\* idf_weights must be set if output_mode is "tf_idf" and should not be set otherwise.
IdfMismatch(has_idf) == (output_mode = "tf_idf") # has_idf

SetVocabularyError(vocabulary, has_idf) ==
    IF IdfMismatch(has_idf) THEN "ConfigError"
    ELSE IF vocabulary = <<>> THEN "ValueError"
    ELSE IF ~NoDup(UserTokens(vocabulary)) THEN "ValueError"
    ELSE IF mask_token # None /\ mask_token \in Range(UserTokens(vocabulary)) THEN "ValueError"
    ELSE IF max_tokens # 0 /\ token_start_index + Len(UserTokens(vocabulary)) > max_tokens
         THEN "ValueError"
    ELSE "none"

\* Without leading special tokens in the vocabulary the OOV weight is the average.
SetIdf(vocabulary, idf) ==
    IF FoundSpecialTokens(vocabulary) THEN idf ELSE PadFront(idf, token_start_index)


\* ------------------------------------------------------------------ operations
EmptyTable == [counts |-> ZeroCounts, dcounts |-> ZeroCounts, ndocs |-> 0]
CurrentTable == [counts |-> token_counts, dcounts |-> token_document_counts,
                 ndocs |-> num_documents]
Total(counts) == SumOver(counts, DataTokens)

\* finalize_state rebuilds although nothing was counted
AlwaysRebuild(t) == FALSE

\* finalize_state has nothing to do while no token has been counted
NothingCounted(t) == Seen(t.counts) = {}

\* finalize_state leaves the table cleared, ready for the next adapt
TableAfterFinalize == EmptyTable

\* finalize_state on a table: the vocabulary (and the idf weights) are rebuilt
\* from what was counted and the table is reset.
FinalizeResult(t) ==
    IF NothingCounted(t)
    THEN [vocab |-> vocab, idf |-> idf_weights, has |-> has_vocab, table |-> t]
    ELSE LET tokens == LearnedVocab(t.counts)
         IN [vocab |-> tokens,
             idf |-> IF output_mode = "tf_idf"
                     THEN LearnedIdf(tokens, t.dcounts, t.ndocs)
                     ELSE idf_weights,
             has |-> TRUE,
             table |-> TableAfterFinalize]

SetTable(t) ==
    /\ token_counts' = t.counts
    /\ token_document_counts' = t.dcounts
    /\ num_documents' = t.ndocs

NoResult == out' = <<>> /\ inv_out' = <<>> /\ err' = "none"

\* update_state(data)
UpdateState(batch) ==
    /\ Total(token_counts) + Len(Flatten(batch)) <= MaxOccur
    /\ \E t \in {TableAfterUpdate(token_counts, token_document_counts,
                                   num_documents, batch)} : SetTable(t)
    /\ base' = CurrentTable
    /\ last' = [NoCall EXCEPT !.op = "update_state", !.data = batch]
    /\ NoResult
    /\ UNCHANGED <<config, vocab, idf_weights, has_vocab, memo>>

\* finalize_state()
FinalizeState ==
    /\ \E r \in {FinalizeResult(CurrentTable)} :
          /\ vocab' = r.vocab
          /\ idf_weights' = r.idf
          /\ has_vocab' = r.has
          /\ SetTable(r.table)
    /\ base' = EmptyTable
    /\ last' = [NoCall EXCEPT !.op = "finalize_state",
                              !.fresh = (Seen(token_counts) = {}),
                              !.twice = (last.op = "finalize_state")]
    /\ NoResult
    /\ UNCHANGED <<config, memo>>

\* reset_state()
ResetState ==
    /\ SetTable(EmptyTable)
    /\ base' = EmptyTable
    /\ last' = [NoCall EXCEPT !.op = "reset_state"]
    /\ NoResult
    /\ UNCHANGED <<config, vocab, idf_weights, has_vocab, memo>>

\* adapt(data): the table is updated with the data and the vocabulary is built
\* at the end of the call.  Whether counts left by earlier update_state calls
\* are cleared first depends on whether the wrapped layer is already built.
Adapt(batch) ==
    \E reset \in BOOLEAN :
      \E start \in {IF reset THEN EmptyTable ELSE CurrentTable} :
        \E r \in {FinalizeResult(TableAfterUpdate(start.counts, start.dcounts,
                                                  start.ndocs, batch))} :
           /\ vocab' = r.vocab
           /\ idf_weights' = r.idf
           /\ has_vocab' = r.has
           /\ SetTable(r.table)
           /\ base' = EmptyTable
           /\ last' = [NoCall EXCEPT !.op = "adapt", !.data = batch,
                                     !.fresh = (start = EmptyTable)]
           /\ NoResult
           /\ UNCHANGED <<config, memo>>

\* set_vocabulary(vocabulary, idf_weights=None)
SetVocabulary(vocabulary, idf, has_idf) ==
    /\ err' = SetVocabularyError(vocabulary, has_idf)
    /\ IF err' = "none"
       THEN /\ vocab' = UserTokens(vocabulary)
            /\ idf_weights' = IF output_mode = "tf_idf" THEN SetIdf(vocabulary, idf)
                              ELSE idf_weights
            /\ has_vocab' = TRUE
       ELSE UNCHANGED <<vocab, idf_weights, has_vocab>>
    /\ base' = EmptyTable
    /\ last' = IF err' = "none"
               THEN [NoCall EXCEPT !.op = "set_vocabulary", !.tokens = vocabulary,
                                   !.idf = idf, !.has_idf = has_idf]
               ELSE [NoCall EXCEPT !.op = "set_vocabulary", !.has_idf = has_idf]
    /\ out' = <<>> /\ inv_out' = <<>>
    /\ UNCHANGED <<config, table, memo>>

\* call(inputs)
Call(batch) ==
    /\ err' = CallError(batch)
    /\ out' = IF err' = "none" THEN CallOutput(batch) ELSE <<>>
    /\ inv_out' = <<>>
    /\ base' = EmptyTable
    /\ last' = [NoCall EXCEPT !.op = "call", !.data = batch]
    /\ UNCHANGED <<config, table, vocab, idf_weights, has_vocab, memo>>

\* ------------------------------------------------------------------ inputs
DocVocab == <<"a", "b", "c", "d">>
DocVocabOov == <<"[UNK]", "a", "b", "c", "d">>

NoDupSeqs(S, n) == {s \in SeqsUpTo(S, n) : NoDup(s)}
VocabInputs ==
    NoDupSeqs(UpdTokens, MaxVocabLen) \cup {DocVocab, DocVocabOov, <<>>, <<"a", "a">>}

\* One weight per term of the vocabulary, as in the documented examples.
DocWeight(t) ==
    CASE t = "a" -> 250
      [] t = "b" -> 750
      [] t = "c" -> 600
      [] t = "d" -> 400
      [] OTHER -> 900
IdfInput(vocabulary) == [i \in DOMAIN vocabulary |-> DocWeight(vocabulary[i])]

ProbeTokens == {"z"}
ProbeBatches == {<< <<t>> >> : t \in ProbeTokens}

\* The hash is any function of the token that agrees with the documented
\* example: with two OOV indices "m" falls into slot 0 and "z" into slot 1.
Fingerprints(D) ==
    {h \in [D -> 0..MaxHash] :
        /\ "m" \in D => h["m"] % 2 = 0
        /\ "z" \in D => h["z"] % 2 = 1}

Reserved(oov, mask, mode) == oov + (IF mask # None /\ mode = "int" THEN 1 ELSE 0)

\* ------------------------------------------------------------------ Spec
\* A layer constructed without a vocabulary, then adapted or given one.
Init ==
    /\ num_oov_indices \in 0..MaxOov
    /\ mask_token \in {None, MaskTok}
    /\ output_mode \in Modes
    /\ max_tokens \in {0} \cup {n \in 2..MaxCap :
                                   n > Reserved(num_oov_indices, mask_token, output_mode)}
    /\ pad_to_max_tokens = FALSE
    /\ fingerprint \in Fingerprints(ProbeTokens)
    /\ layer_methods = PublicMethods
    /\ token_counts = ZeroCounts
    /\ token_document_counts = ZeroCounts
    /\ num_documents = 0
    /\ vocab = <<>>
    /\ idf_weights = <<>>
    /\ has_vocab = FALSE
    /\ last = NoCall
    /\ out = <<>>
    /\ inv_out = <<>>
    /\ err = "none"
    /\ base = EmptyTable
    /\ memo = NoMemo

Next ==
    \/ \E batch \in UpdBatches : UpdateState(batch)
    \/ FinalizeState
    \/ ResetState
    \/ \E batch \in AdaptBatches : Adapt(batch)
    \/ \E vocabulary \in VocabInputs :
          \/ SetVocabulary(vocabulary, <<>>, FALSE)
          \/ SetVocabulary(vocabulary, IdfInput(vocabulary), TRUE)
    \/ \E batch \in ProbeBatches : Call(batch)

Spec == Init /\ [][Next]_vars


\* lookup(token): one token looked up on its own
LookupTok(t) ==
    /\ err' = IF LookupFails(t) THEN "LookupError" ELSE "none"
    /\ out' = IF err' = "none" THEN << <<lookup(t)>> >> ELSE <<>>
    /\ inv_out' = <<>>
    /\ last' = [NoCall EXCEPT !.op = "lookup", !.tokens = <<t>>]
    /\ memo' = IF err' # "none" THEN memo
               ELSE IF memo.token = None
                    THEN [NoMemo EXCEPT !.token = t, !.index = lookup(t)]
               ELSE IF memo.token = t THEN [memo EXCEPT !.again = TRUE]
               ELSE [memo EXCEPT !.between = TRUE]
    /\ UNCHANGED <<config, table, vocab, idf_weights, has_vocab, base>>

\* i_layer(layer(data)): a layer with invert=True over the same vocabulary,
\* called on the indices the forward layer returned
ILayerCall ==
    /\ last.op = "call" /\ err = "none" /\ output_mode = "int"
    /\ inv_out' = [i \in DOMAIN out |-> [k \in DOMAIN out[i] |-> inverse_lookup(out[i][k])]]
    /\ last' = [last EXCEPT !.op = "i_layer"]
    /\ UNCHANGED <<config, table, vocab, idf_weights, has_vocab, out, err, base, memo>>

\* ------------------------------------------------------------------ SpecCall
\* A layer constructed with vocabulary=..., then called.
CtorVocabs == {DocVocab, DocVocabOov}
CallOovTokens == {"m", "z"}
CallTokens == {"a", "z", MaskTok}
DocIntBatch == << <<"a", "c", "d">>, <<"d", "z", "b">> >>
DocOovBatch == << <<"a", "c", "d">>, <<"m", "z", "b">> >>
DocHotBatch == << <<"a", "c", "d", "d">>, <<"d", "z", "b", "z">> >>
DocOneHotBatch == << <<"a">>, <<"b">>, <<"c">>, <<"d">>, <<"z">> >>
\* The mask token is given to layers that have one.
CallBatches ==
    {batch \in {DocIntBatch, DocOovBatch, DocHotBatch, DocOneHotBatch}
                  \cup {<<s>> : s \in SeqsUpTo(CallTokens, MaxSampleLen)} :
        mask_token = None => MaskTok \notin Range(Flatten(batch))}

Quiet ==
    /\ token_counts = ZeroCounts
    /\ token_document_counts = ZeroCounts
    /\ num_documents = 0
    /\ last = NoCall
    /\ out = <<>>
    /\ inv_out = <<>>
    /\ err = "none"
    /\ base = EmptyTable
    /\ memo = NoMemo

InitCall ==
    /\ num_oov_indices \in 0..(MaxOov + 1)
    /\ mask_token \in {None, MaskTok}
    /\ output_mode \in Modes
    /\ \E vocabulary \in CtorVocabs :
          /\ vocab = UserTokens(vocabulary)
          /\ idf_weights = IF output_mode = "tf_idf"
                           THEN SetIdf(vocabulary, IdfInput(vocabulary))
                           ELSE <<>>
    /\ pad_to_max_tokens \in
          IF output_mode \in {"multi_hot", "count", "tf_idf"} THEN BOOLEAN ELSE {FALSE}
    /\ max_tokens = IF pad_to_max_tokens THEN vocabulary_size + 1 ELSE 0
    /\ fingerprint \in Fingerprints(CallOovTokens)
    /\ layer_methods = PublicMethods
    /\ has_vocab = TRUE
    /\ Quiet

NextCall ==
    \/ \E batch \in CallBatches : Call(batch)
    \/ ILayerCall

SpecCall == InitCall /\ [][NextCall]_vars

\* ------------------------------------------------------------------ SpecLookup
\* Single lookups on a layer constructed with a vocabulary.
LookupVocabs == NoDupSeqs(UpdTokens, MaxVocabLen) \cup {DocVocab}
LookupTokens == {"a", "m", "z"}

InitLookup ==
    /\ num_oov_indices \in 0..(MaxOov + 1)
    /\ mask_token \in {None, MaskTok}
    /\ output_mode \in Modes
    /\ vocab \in LookupVocabs
    /\ idf_weights = IF output_mode = "tf_idf" THEN SetIdf(vocab, IdfInput(vocab)) ELSE <<>>
    /\ pad_to_max_tokens = FALSE
    /\ max_tokens = 0
    /\ fingerprint \in Fingerprints(LookupTokens)
    /\ layer_methods = PublicMethods
    /\ has_vocab = TRUE
    /\ Quiet

NextLookup == \E t \in LookupTokens : LookupTok(t)

SpecLookup == InitLookup /\ [][NextLookup]_vars

\* ------------------------------------------------------------------ SpecPersist
\* hasattr(self.layer, name)
hasattr(name) == name \in layer_methods

\* A persistence method of the wrapper: the method of the wrapped layer it
\* chooses is invoked, an AttributeError if the wrapped layer has no such method.
Forward(method, chosen) ==
    /\ last' = [NoCall EXCEPT !.op = method, !.invoked = chosen]
    /\ err' = IF hasattr(chosen) THEN "none" ELSE "AttributeError"
    /\ out' = <<>> /\ inv_out' = <<>>
    /\ UNCHANGED <<config, table, vocab, idf_weights, has_vocab, base, memo>>

\* save_own_variables(store)
SaveOwnVariables ==
    Forward("save_own_variables",
            IF hasattr("save_own_variables") THEN "save_own_variables"
            ELSE "_save_own_variables")

\* load_own_variables(store)
LoadOwnVariables ==
    Forward("load_own_variables",
            IF hasattr("load_own_variables") THEN "load_own_variables"
            ELSE "_load_own_variables")

\* save_assets(dir_path)
SaveAssets ==
    Forward("save_assets",
            IF hasattr("save_assets") THEN "save_assets" ELSE "_save_assets")

\* load_assets(dir_path): the test is on "save_assets"
LoadAssets ==
    Forward("load_assets",
            IF hasattr("save_assets") THEN "load_assets" ELSE "_load_assets")

\* A wrapper around a layer that provides any of the eight methods.
InitPersist ==
    /\ num_oov_indices = 1
    /\ mask_token = None
    /\ output_mode = "int"
    /\ max_tokens = 0
    /\ pad_to_max_tokens = FALSE
    /\ fingerprint = [t \in ProbeTokens |-> 1]
    /\ layer_methods \in SUBSET (PublicMethods \cup PrivateMethods)
    /\ vocab = <<>>
    /\ idf_weights = <<>>
    /\ has_vocab = FALSE
    /\ Quiet

NextPersist ==
    \/ SaveOwnVariables
    \/ LoadOwnVariables
    \/ SaveAssets
    \/ LoadAssets

SpecPersist == InitPersist /\ [][NextPersist]_vars

\* ------------------------------------------------------------------ claims
Min(x, y) == IF x <= y THEN x ELSE y
DocVocabulary == <<"[UNK]", "d", "z", "c", "b", "a">>

\* The counts a finalize_state or adapt step builds the vocabulary from.
CountsUsed ==
    IF last'.op = "adapt"
    THEN AddCounts(IF last'.fresh THEN ZeroCounts ELSE token_counts, last'.data)
    ELSE token_counts
Rebuilt == last'.op \in {"adapt", "finalize_state"} /\ Seen(CountsUsed) # {}

\* v is in descending order of count, equal counts in descending token order.
Descending(v, counts) ==
    \A i, j \in DOMAIN v :
        i < j => \/ counts[v[i]] > counts[v[j]]
                 \/ counts[v[i]] = counts[v[j]] /\ TokenOrd(v[i]) > TokenOrd(v[j])

C3_Step ==
    /\ Rebuilt =>
          /\ Range(vocab') \subseteq Seen(CountsUsed)
          /\ NoDup(vocab')
          /\ Descending(vocab', CountsUsed)
          /\ max_tokens = 0 => Range(vocab') = Seen(CountsUsed)
    /\ (Rebuilt /\ max_tokens = 0 /\ CountsUsed = AddCounts(ZeroCounts, TieBatch))
          => vocab' = <<"b", "a", "c">>
    /\ (last'.op = "adapt" /\ last'.fresh /\ last'.data = DocBatch /\ max_tokens = 0
        /\ num_oov_indices = 1 /\ mask_token = None)
          => get_vocabulary(TRUE)' = DocVocabulary

\* C3: finalize_state orders the tokens by descending occurrence count, ties by
\* descending token order: counts {a:3, b:3, c:1} give [b, a, c], and adapting
\* [[a,c,d],[d,z,b]] gives the vocabulary ['[UNK]', d, z, c, b, a].
C3_Ordering == [][C3_Step]_vars

C3_Witness ==
    /\ last.op = "adapt" /\ last.data = TieBatch /\ last.fresh
    /\ vocab = <<"b", "a", "c">>


\* The operations the cardinality claim is about.
Installed == last'.op \in {"adapt", "finalize_state", "set_vocabulary"} /\ has_vocab'

\* No two tokens of the vocabulary (the mask token included, where it has a
\* slot) share an index, and the indices fill the slots after the reserved ones.
DistinctIndices(first) ==
    /\ \A t, u \in Range(vocab) : lookup(t) = lookup(u) => t = u
    /\ {lookup(t) : t \in Range(vocab)} = first .. (vocabulary_size - 1)
    /\ Len(get_vocabulary(TRUE)) = vocabulary_size

\* The retained tokens are the n most frequent of the tokens counted.
MostFrequent(v, counts, n) ==
    /\ Len(v) = n
    /\ \A t \in Range(v) : \A u \in Seen(counts) \ Range(v) : counts[t] >= counts[u]

MaskSlots == IF mask_token # None THEN 1 ELSE 0
IntMaskSlots == IF mask_token # None /\ output_mode = "int" THEN 1 ELSE 0

C4_OriginalStep ==
    Installed =>
        /\ vocabulary_size' = num_oov_indices + MaskSlots + Len(vocab')
        /\ max_tokens # 0 => vocabulary_size' <= max_tokens
        /\ DistinctIndices(num_oov_indices + MaskSlots)'
        /\ (Rebuilt /\ max_tokens # 0) =>
              MostFrequent(vocab', CountsUsed,
                           Min(max_tokens - (num_oov_indices + MaskSlots),
                               Cardinality(Seen(CountsUsed))))

C4_Step ==
    Installed =>
        /\ vocabulary_size' = num_oov_indices + IntMaskSlots + Len(vocab')
        /\ max_tokens # 0 => vocabulary_size' <= max_tokens
        /\ DistinctIndices(num_oov_indices + IntMaskSlots)'
        /\ (Rebuilt /\ max_tokens # 0) =>
              MostFrequent(vocab', CountsUsed,
                           Min(max_tokens - (num_oov_indices + IntMaskSlots),
                               Cardinality(Seen(CountsUsed))))

C5_OriginalStep ==
    (last.op = "adapt" /\ last.fresh /\ last'.op = "adapt") =>
        vocab' = LearnedVocab(AddCounts(ZeroCounts, last.data \o last'.data))

C5_Step ==
    /\ (last.op = "update_state" /\ last'.op = "update_state") =>
          CurrentTable' = TableAfterUpdate(base.counts, base.dcounts, base.ndocs,
                                           last.data \o last'.data)
    /\ (last.op = "update_state" /\ last'.op = "finalize_state") =>
          vocab' = LearnedVocab(AddCounts(base.counts, last.data))
    /\ (last.op = "adapt" /\ last'.op = "adapt") =>
          vocab' = LearnedVocab(AddCounts(ZeroCounts, last'.data))

C6_Step ==
    (last.op = "finalize_state" /\ last'.op = "finalize_state") =>
        /\ vocab' = vocab
        /\ idf_weights' = idf_weights
        /\ get_vocabulary(TRUE)' = get_vocabulary(TRUE)
        /\ has_vocab' = has_vocab

C10_SetVocabulary ==
    /\ last.op = "set_vocabulary" =>
          /\ (last.has_idf /\ output_mode # "tf_idf") => err = "ConfigError"
          /\ (~last.has_idf /\ output_mode = "tf_idf") => err = "ConfigError"
          /\ err = "none" =>
                /\ has_vocab
                /\ \/ vocab = last.tokens
                   \/ SpecialTokens \o vocab = last.tokens
    /\ last.op = "call" => err # "ConfigError"

C10_Witness ==
    /\ last.op = "set_vocabulary" /\ err = "ConfigError"
    /\ last.has_idf /\ has_vocab


\* ------------------------------------------------------------------ claims on call
\* C1: in "int" mode the mask slot (if a mask token is set) is index 0, the
\* num_oov_indices OOV slots follow, then the tokens in vocabulary order, and
\* call() maps each token to that index: vocabulary [a,b,c,d], one OOV index and
\* no mask turn [[a,c,d],[d,z,b]] into [[1,3,4],[4,0,2]].
C1_IntLayout ==
    (last.op = "call" /\ output_mode = "int" /\ err = "none") =>
        /\ DOMAIN out = DOMAIN last.data
        /\ \A i \in DOMAIN last.data :
              /\ DOMAIN out[i] = DOMAIN last.data[i]
              /\ \A k \in DOMAIN last.data[i] :
                    LET t == last.data[i][k]
                    IN /\ (mask_token # None /\ t = mask_token) => out[i][k] = 0
                       /\ \A p \in DOMAIN vocab :
                             vocab[p] = t => out[i][k] = MaskSlots + num_oov_indices + p - 1
                       /\ (t \in Range(vocab) \/ (mask_token # None /\ t = mask_token))
                             => get_vocabulary(TRUE)[out[i][k] + 1] = t
                       /\ (t \notin Range(vocab) /\ ~(mask_token # None /\ t = mask_token))
                             => /\ out[i][k] \in MaskSlots .. (MaskSlots + num_oov_indices - 1)
                                /\ get_vocabulary(TRUE)[out[i][k] + 1] = OovToken
        /\ (vocab = DocVocab /\ num_oov_indices = 1 /\ mask_token = None
            /\ last.data = DocIntBatch) => out = << <<1, 3, 4>>, <<4, 0, 2>> >>

C1_Witness ==
    /\ last.op = "call" /\ output_mode = "int" /\ last.data = DocIntBatch
    /\ vocab = DocVocab /\ num_oov_indices = 1 /\ mask_token = None
    /\ out = << <<1, 3, 4>>, <<4, 0, 2>> >>

C7_RoundTrip ==
    last.op = "i_layer" =>
        /\ DOMAIN inv_out = DOMAIN last.data
        /\ \A i \in DOMAIN last.data :
              /\ DOMAIN inv_out[i] = DOMAIN last.data[i]
              /\ \A k \in DOMAIN last.data[i] :
                    LET t == last.data[i][k]
                    IN /\ (t \in Range(vocab) \/ IsMask(t)) =>
                             /\ inv_out[i][k] = t
                             /\ lookup(inv_out[i][k]) = out[i][k]
                       /\ Missing(t) => inv_out[i][k] = OovToken

C7_Witness ==
    /\ last.op = "i_layer" /\ last.data = DocIntBatch /\ vocab = DocVocab
    /\ out = << <<1, 3, 4>>, <<4, 0, 2>> >>
    /\ inv_out = << <<"a", "c", "d">>, <<"d", "[UNK]", "b">> >>

\* Occurrences in a sample of the tokens that are not in the vocabulary (the mask
\* token, which is dropped, apart).
Unknown(sample) == Cardinality({k \in DOMAIN sample : Missing(sample[k])})
Width == IF pad_to_max_tokens THEN max_tokens ELSE num_oov_indices + Len(vocab)

\* What slot s of a count vector must hold for a sample.
SlotCounts(vec, sample) ==
    /\ Len(vec) = Width
    /\ \A p \in DOMAIN vocab : vec[num_oov_indices + p] = Occ(sample, vocab[p])
    /\ SumSeq(SubSeq(vec, 1, num_oov_indices)) = Unknown(sample)
    /\ \A s \in (num_oov_indices + Len(vocab) + 1) .. Width : vec[s] = 0
    /\ \A s \in 1..Width : vec[s] >= 0

\* C8: in "count" mode slot i of a sample's vector is the number of occurrences
\* of the token with index i, OOV slots first and unknown tokens counted there;
\* in "multi_hot" mode it is 1 where that count is at least 1 and 0 elsewhere.
\* Vocabulary [a,b,c,d] with one OOV slot: [a,c,d,d] gives [0,1,0,1,1] and
\* [0,1,0,1,2].
C8_CountMultiHot ==
    (last.op = "call" /\ err = "none" /\ output_mode \in {"count", "multi_hot"}) =>
        /\ DOMAIN out = DOMAIN last.data
        /\ \A i \in DOMAIN last.data :
              /\ output_mode = "count" => SlotCounts(out[i], last.data[i])
              /\ output_mode = "multi_hot" =>
                    /\ Len(out[i]) = Width
                    /\ \A s \in 1..Width : out[i][s] \in {0, 1}
                    /\ \A p \in DOMAIN vocab :
                          out[i][num_oov_indices + p] = 1 <=> Occ(last.data[i], vocab[p]) >= 1
                    /\ SumSeq(SubSeq(out[i], 1, num_oov_indices)) >= 1
                          <=> Unknown(last.data[i]) >= 1
                    /\ \A s \in (num_oov_indices + Len(vocab) + 1) .. Width : out[i][s] = 0
        /\ (vocab = DocVocab /\ num_oov_indices = 1 /\ ~pad_to_max_tokens
            /\ last.data = DocHotBatch) =>
              /\ output_mode = "multi_hot" => out[1] = <<0, 1, 0, 1, 1>>
              /\ output_mode = "count" => out[1] = <<0, 1, 0, 1, 2>>

C8_Witness ==
    /\ last.op = "call" /\ output_mode = "count" /\ last.data = DocHotBatch
    /\ vocab = DocVocab /\ num_oov_indices = 1
    /\ out = << <<0, 1, 0, 1, 2>>, <<2, 0, 1, 0, 1>> >>

DocTfIdfCase ==
    /\ last.op = "call" /\ err = "none" /\ output_mode = "tf_idf"
    /\ vocab = DocVocab /\ num_oov_indices = 1 /\ ~pad_to_max_tokens
    /\ idf_weights = <<500, 250, 750, 600, 400>>
    /\ last.data = DocHotBatch

\* C9 as claimed: with vocabulary [a,b,c,d] and idf weights [0.25,0.75,0.6,0.4]
\* the sample [a,c,d,d] is encoded as [0, 0.25, 0, 0.8].
C9_Original == DocTfIdfCase => out[1] = <<0, 250, 0, 800>>

\* C9 (amended): in "tf_idf" mode each slot is the occurrence count of the slot
\* times its idf weight, the OOV slot first: with vocabulary [a,b,c,d] and idf
\* weights [0.25,0.75,0.6,0.4] the sample [a,c,d,d] is encoded as
\* [0, 0.25, 0, 0.6, 0.8].
C9_TfIdf ==
    /\ (last.op = "call" /\ err = "none" /\ output_mode = "tf_idf") =>
          \A i \in DOMAIN last.data :
              /\ Len(out[i]) = Width
              /\ \A p \in DOMAIN vocab :
                    out[i][num_oov_indices + p] =
                        Occ(last.data[i], vocab[p]) * idf_weights[num_oov_indices + p]
              /\ Unknown(last.data[i]) = 0 =>
                    \A s \in 1..num_oov_indices : out[i][s] = 0
              /\ num_oov_indices = 1 =>
                    out[i][1] = Unknown(last.data[i]) * idf_weights[1]
              /\ \A s \in (num_oov_indices + Len(vocab) + 1) .. Width : out[i][s] = 0
    /\ DocTfIdfCase => out[1] = <<0, 250, 0, 600, 800>>

C9_Witness == DocTfIdfCase /\ out[1] = <<0, 250, 0, 600, 800>>

\* ------------------------------------------------------------------ claims on state
C11_Step ==
    last'.op = "call" =>
        /\ ~has_vocab => (err' = "StateError" /\ out' = <<>>)
        /\ has_vocab => err' # "StateError"
        /\ vocab' = vocab
        /\ idf_weights' = idf_weights
        /\ has_vocab' = has_vocab
        /\ CurrentTable' = CurrentTable

\* C11: while no vocabulary exists (none given, none adapted and finalized, none
\* set) call() fails with StateError; once one exists call() does not fail with
\* StateError, and call() leaves the vocabulary, the idf weights and the
\* FrequencyTable as they were.
C11_CallState == [][C11_Step]_vars

C11_Witness ==
    /\ last.op = "call" /\ err = "StateError"
    /\ ~has_vocab /\ Seen(token_counts) # {}

\* Samples of the batch in which the token occurs, each counted once.
DocsWith(batch, t) ==
    SumSeq([i \in DOMAIN batch |-> IF Occ(batch[i], t) >= 1 THEN 1 ELSE 0])

\* The table an adapt step starts from.
StartTable == IF last'.fresh THEN EmptyTable ELSE CurrentTable

C12_Step ==
    /\ (last'.op = "update_state" /\ output_mode = "tf_idf") =>
          /\ \A t \in DataTokens :
                /\ token_document_counts'[t] =
                      token_document_counts[t] + DocsWith(last'.data, t)
                /\ token_counts'[t] = token_counts[t] + Occ(Flatten(last'.data), t)
          /\ num_documents' = num_documents + Len(last'.data)
    /\ (last'.op = "adapt" /\ output_mode = "tf_idf") =>
          \A p \in DOMAIN vocab' :
              idf_weights'[token_start_index + p] =
                  inverse_document_frequency(
                      StartTable.dcounts[vocab'[p]] + DocsWith(last'.data, vocab'[p]),
                      StartTable.ndocs + Len(last'.data))
    /\ \A t \in DataTokens :
          /\ token_document_counts'[t] <= num_documents'
          /\ token_document_counts'[t] <= token_counts'[t]

\* C12: in tf_idf mode each sample adds exactly 1 to the document count of every
\* token that occurs in it, however often, and nothing to the others, while the
\* occurrence count grows by the number of occurrences; so a token's document
\* count never exceeds the number of samples seen nor its occurrence count.
C12_DocumentCounts == [][C12_Step]_vars

C12_Witness ==
    /\ last.op = "update_state" /\ output_mode = "tf_idf"
    /\ last.data = << <<"a", "a">> >>
    /\ token_counts["a"] = 2 /\ token_document_counts["a"] = 1 /\ num_documents = 1

\* ------------------------------------------------------------------ claims on persistence
\* The last operation went to the public method if the wrapped layer has it and
\* to the private one only if it has not.
ForwardsTo(method) ==
    last.op = method =>
        /\ hasattr(method) => last.invoked = method
        /\ ~hasattr(method) => last.invoked = Private(method)

\* C13 as claimed: each of save_own_variables, load_own_variables, save_assets
\* and load_assets forwards to the wrapped layer's public method of that name
\* whenever the layer has it and to the private one only when it has not, and
\* load_assets invokes no method the layer lacks when the layer provides
\* load_assets or _load_assets.
C13_Forwarding ==
    /\ \A method \in PublicMethods : ForwardsTo(method)
    /\ (last.op = "load_assets" /\ (hasattr("load_assets") \/ hasattr("_load_assets")))
          => (hasattr(last.invoked) /\ err = "none")

\* C13 (what holds of the code): the three methods whose test names the method
\* they forward to go to the public method if the wrapped layer has it, to the
\* private one otherwise.
C13_OtherMethods ==
    \A method \in PublicMethods \ {"load_assets"} : ForwardsTo(method)

C13_Witness ==
    /\ last.op = "load_assets"
    /\ hasattr("save_assets") /\ ~hasattr("load_assets") /\ hasattr("_load_assets")
    /\ last.invoked = "load_assets" /\ err = "AttributeError"

====
